---- MODULE Spec2Model ----
(***************************************************************************)
(* ForkingDongles: the plugin engine (PluginManager), the event registry   *)
(* (EventManager) and the session's message routing (ForkingDongles.       *)
(* privmsg), modelled as a state machine.                                  *)
(*                                                                         *)
(* Python dictionaries are sequences in insertion order (CPython 3.6+);    *)
(* an iterator over a dictionary is the number of live entries it has      *)
(* passed, the number it has yielded, and the size the dictionary had when  *)
(* the loop began.  A dictionary whose size differs from that size ends the *)
(* loop in a RuntimeError; one that has the same size and still holds an    *)
(* entry after as many were yielded does so on CPython 3.8 and later, and   *)
(* yields the entry on 3.6 and 3.7.                                         *)
(* A handler that has been started and has not completed may be suspended, *)
(* so any other operation of the event loop can happen in between.         *)
(***************************************************************************)
EXTENDS Integers, Sequences, FiniteSets, TLC

\* ------------------------------------------------------------- bounds
MaxLoads == 3   \* plugin instances created over one behaviour
MaxBatch == 2   \* identifiers passed to one load call
MaxMsgs  == 2   \* messages being handled at the same time
MaxFires == 1   \* fire calls of other origin in progress at the same time
MaxRegs  == 3   \* callbacks registered directly over one behaviour
MaxPluginRegs == 4  \* callback ids handed out before a load call may begin
MaxRouteLoads == 2  \* plugin instances created while messages are routed
MaxBlacklist == 2  \* entries of one unit's blacklist
MaxCloses == 2  \* calls of one instance's close hook that are told apart

\* ------------------------------------------------------------- universe
PluginIds == {"a", "b"}
Kinds == {"PRIVMSG", "custom"}
ChannelNames == {"#c", "#d"}
\* the channel the messages of the model arrive on
MsgChannels == {"#c"}

STOP == "STOP"
STOP_ALL == "STOP_ALL"
None == "None"
Unbound == 0          \* a local variable that was never assigned
NoHandler == [unit |-> "", inst |-> 0, fn |-> "", id |-> 0]

\* identifiers compare as Python strings do
IdLess(p, q) == p = "a" /\ q = "b"

\* ------------------------------------------------------------- plugin code
\* What a plugin file may hold when it is imported.  callbacks and commands
\* are listed in inspect.getmembers order (by method name).
CbMsg    == [fn |-> "cb1", events |-> <<"PRIVMSG">>, arglen |-> 0, varargs |-> TRUE]
CbMsg2   == [fn |-> "cb2", events |-> <<"PRIVMSG">>, arglen |-> 3, varargs |-> FALSE]
CbBoth   == [fn |-> "cb1", events |-> <<"PRIVMSG", "custom">>, arglen |-> 0, varargs |-> TRUE]
CbBad    == [fn |-> "cb2", events |-> <<"custom", "PRIVMSG">>, arglen |-> 5, varargs |-> FALSE]
CmdGo    == [fn |-> "go", type |-> "command", match |-> {"go"}]
RegexHi  == [fn |-> "onhi", type |-> "regex", match |-> {"hi"}]

SrcBroken  == [import |-> FALSE, setup |-> "missing", close |-> "none",
               callbacks |-> << >>, commands |-> << >>]
SrcNoSetup == [import |-> TRUE, setup |-> "missing", close |-> "none",
               callbacks |-> <<CbMsg>>, commands |-> << >>]
SrcArity2  == [import |-> TRUE, setup |-> "arity2", close |-> "none",
               callbacks |-> <<CbMsg>>, commands |-> << >>]
SrcOne     == [import |-> TRUE, setup |-> "arity1", close |-> "arity1",
               callbacks |-> <<CbMsg>>, commands |-> <<CmdGo>>]
SrcTwo     == [import |-> TRUE, setup |-> "arity0", close |-> "raises",
               callbacks |-> <<CbMsg, CbMsg2>>, commands |-> <<CmdGo, RegexHi>>]
SrcBoth    == [import |-> TRUE, setup |-> "arity1", close |-> "arity3",
               callbacks |-> <<CbBoth>>, commands |-> <<RegexHi>>]
SrcBadCb   == [import |-> TRUE, setup |-> "arity1", close |-> "arity2",
               callbacks |-> <<CbMsg, CbBad>>, commands |-> <<CmdGo>>]
Sources == {SrcBroken, SrcNoSetup, SrcArity2, SrcOne, SrcTwo, SrcBoth, SrcBadCb}

VARIABLES
    events,     \* EventManager.events: declared kind -> arity
    callbacks,  \* EventManager.callbacks: kind -> entries in insertion order
    plugins,    \* PluginManager.plugins: unit records in insertion order
    cidHeap,    \* the callback_ids dictionaries the unit records refer to
    nextInst,   \* number of plugin instances created so far
    nextId,    \* number of callback ids handed out so far
    reloads,    \* ForkingDongles.reloads
    channels,   \* ForkingDongles.channels: name -> Channel object (0: not joined)
    tasks,      \* privmsg / fire coroutines: position and handler in flight
    users,      \* ForkingDongles.users: lowercase nick -> User
    chanState,  \* the lists and modes of the Channel object of each name
    closes,     \* plugin instance -> calls of its close hook, counted up to MaxCloses
    timers,     \* reactor.callLater: the delayed calls that are pending, oldest first
    connected,  \* the connection of this protocol instance is up
    sent,       \* the lines the last operation handed to sendLine
    op          \* the last operation and what it returned

vars == <<events, callbacks, plugins, cidHeap, nextInst, nextId, reloads, channels, tasks,
          users, chanState, closes, timers, connected, sent, op>>
engine == <<events, callbacks, plugins, cidHeap, nextInst, nextId, reloads, closes>>
\* an operation that sends nothing and schedules nothing
Silent == sent' = << >> /\ UNCHANGED <<timers, connected>>

\* ------------------------------------------------------------- helpers
ChannelStr(c) == [name |-> c, obj |-> 0]   \* a channel given by its name
ChannelObj(n) == [name |-> "", obj |-> n]  \* a Channel object; -1: one made for this message
IdleTask == [phase |-> "idle", origin |-> "", kind |-> "", chan |-> ChannelObj(0), chanName |-> "",
             msg |-> << >>, pidx |-> 0, pseen |-> 0, pused |-> 0, cmds |-> << >>, cpos |-> 0,
             unit |-> NoHandler, cidx |-> 0, cseen |-> 0, cused |-> 0, cur |-> NoHandler,
             curType |-> "", result |-> None, error |-> "", log |-> << >>,
             routed |-> "", fired |-> 0]

Range(s) == {s[i] : i \in DOMAIN s}
RemoveAt(s, i) == [j \in 1..(Len(s) - 1) |-> IF j < i THEN s[j] ELSE s[j + 1]]
IndexOf(s, x) == IF \E i \in DOMAIN s : s[i] = x
                 THEN CHOOSE i \in DOMAIN s : s[i] = x /\ \A j \in 1..(i - 1) : s[j] # x
                 ELSE 0
Min(S) == CHOOSE x \in S : \A y \in S : x <= y
NoCids == [k \in Kinds |-> << >>]

\* a coroutine that has ended is gone when the next operation begins
Reap(ts) == [t \in DOMAIN ts |-> IF ts[t].phase \in {"cmd", "evt"} THEN ts[t] ELSE IdleTask]

\* the state the operations act on, as one record
State == [events |-> events, callbacks |-> callbacks, plugins |-> plugins,
          cidHeap |-> cidHeap, nextInst |-> nextInst, nextId |-> nextId,
          reloads |-> reloads, closes |-> closes,
          tasks |-> Reap(tasks)]

PluginIndex(s, p) == IF \E i \in DOMAIN s.plugins : s.plugins[i].name = p
                     THEN CHOOSE i \in DOMAIN s.plugins : s.plugins[i].name = p
                     ELSE 0
Loaded(s, p) == PluginIndex(s, p) # 0
PluginOf(s, p) == s.plugins[PluginIndex(s, p)]

\* ------------------------------------------------------------- EventManager
\* _generate_id and the retry loop of _add_callback give an id that is not in
\* use for the kind.  Ids are opaque: the model hands out the number of the
\* registration, so an id also tells when its callback was registered.
GenerateId(s) == s.nextId + 1

\* a registry that puts a new entry before the ones it holds: with it, fire
\* would not follow registration order
AddCallbackFirst(s, k, entry) ==
    LET id == GenerateId(s)
    IN [s |-> [s EXCEPT !.callbacks[k] = <<[entry EXCEPT !.id = id]>> \o @,
                        !.nextId = id],
        id |-> id]

\* _add_callback: the new entry goes to the end of the kind's dictionary
AddCallback(s, k, entry) ==
    LET id == GenerateId(s)
    IN [s |-> [s EXCEPT !.callbacks[k] = Append(@, [entry EXCEPT !.id = id]),
                        !.nextId = id],
        id |-> id]

\* register_callback: the arity check applies to declared kinds only
CallbackAccepted(s, k, cb) ==
    \/ k \notin DOMAIN s.events
    \/ cb.arglen = s.events[k]
    \/ cb.varargs

RegisterCallback(s, k, cb, unit, inst) ==
    IF CallbackAccepted(s, k, cb)
    THEN LET r == AddCallback(s, k, [id |-> 0, unit |-> unit, inst |-> inst, fn |-> cb.fn,
                                     arglen |-> cb.arglen, varargs |-> cb.varargs])
         IN [ok |-> TRUE, s |-> r.s, id |-> r.id]
    ELSE [ok |-> FALSE, s |-> s, id |-> 0]

\* a registry that lets a second declaration of a kind replace the first
RegisterEventAgain(s, k, arglen) ==
    [s |-> [s EXCEPT !.events = [j \in DOMAIN @ \cup {k} |-> IF j = k THEN arglen ELSE @[j]]],
     raised |-> FALSE]

\* register: a kind that is declared stays as it is; a new kind keeps the
\* callbacks that were registered for it before it was declared
RegisterEvent(s, k, arglen) ==
    IF k \in DOMAIN s.events
    THEN [s |-> s, raised |-> TRUE]
    ELSE [s |-> [s EXCEPT !.events = [j \in DOMAIN @ \cup {k} |-> IF j = k THEN arglen ELSE @[j]]],
          raised |-> FALSE]

\* An entry leaves a dictionary: iterators that had passed it have passed one
\* live entry less.
DropFromFire(ts, k, j) ==
    [t \in DOMAIN ts |->
        IF ts[t].phase = "evt" /\ ts[t].kind = k /\ ts[t].cidx >= j
        THEN [ts[t] EXCEPT !.cidx = @ - 1] ELSE ts[t]]

DropFromRoute(ts, j) ==
    [t \in DOMAIN ts |->
        IF ts[t].phase = "cmd" /\ ts[t].pidx >= j
        THEN [ts[t] EXCEPT !.pidx = @ - 1] ELSE ts[t]]

\* unregister_callback: nothing happens when the id is not registered
UnregisterCallback(s, k, id) ==
    LET j == IF \E i \in DOMAIN s.callbacks[k] : s.callbacks[k][i].id = id
             THEN CHOOSE i \in DOMAIN s.callbacks[k] : s.callbacks[k][i].id = id
             ELSE 0
    IN IF j = 0 THEN s
       ELSE [s EXCEPT !.callbacks[k] = RemoveAt(@, j),
                      !.tasks = DropFromFire(@, k, j)]

\* ------------------------------------------------------------- PluginManager
KindSeq == <<"PRIVMSG", "custom">>

NewRef(s) == Min({r \in 1..(Cardinality(DOMAIN s.cidHeap) + 1) : r \notin DOMAIN s.cidHeap})

\* for callback in callbacks: for name in callback.events
RECURSIVE CallbackPairs(_)
CallbackPairs(cbs) ==
    IF cbs = << >> THEN << >>
    ELSE [i \in 1..Len(cbs[1].events) |-> [cb |-> cbs[1], k |-> cbs[1].events[i]]]
         \o CallbackPairs(Tail(cbs))

\* _register_plugin_callbacks: the first refused callback raises; what was
\* registered before it stays in the registry and the ids collected are lost
RECURSIVE RegisterPairs(_, _, _, _, _)
RegisterPairs(s, pairs, unit, inst, ids) ==
    IF pairs = << >> THEN [ok |-> TRUE, s |-> s, ids |-> ids]
    ELSE LET r == RegisterCallback(s, pairs[1].k, pairs[1].cb, unit, inst)
         IN IF ~r.ok THEN [ok |-> FALSE, s |-> s, ids |-> ids]
            ELSE RegisterPairs(r.s, Tail(pairs), unit, inst,
                               [ids EXCEPT ![pairs[1].k] = Append(@, r.id)])

RegisterPluginCallbacks(s, cbs, unit, inst) ==
    RegisterPairs(s, CallbackPairs(cbs), unit, inst, NoCids)

\* for callback_id in plugin['callback_ids'][name]: unregister, then remove
\* the id from the list the loop is walking
RECURSIVE UnregisterList(_, _, _, _)
UnregisterList(s, ref, k, i) ==
    LET lst == s.cidHeap[ref][k]
    IN IF i > Len(lst) THEN s
       ELSE LET id == lst[i]
                s1 == UnregisterCallback(s, k, id)
                s2 == [s1 EXCEPT !.cidHeap[ref][k] = RemoveAt(@, IndexOf(@, id))]
            IN UnregisterList(s2, ref, k, i + 1)

RECURSIVE UnregisterKinds(_, _, _)
UnregisterKinds(s, ref, ks) ==
    IF ks = << >> THEN s
    ELSE UnregisterKinds(UnregisterList(s, ref, Head(ks), 1), ref, Tail(ks))

UnregisterPluginCallbacks(s, p) == UnregisterKinds(s, PluginOf(s, p).callback_ids, KindSeq)

\* _unload_plugin: the optional close hook of the unit's instance
UnloadPlugin(s, p) ==
    LET close == PluginOf(s, p).instance.close
        called == close \in {"arity1", "arity2", "raises"}
    IN [s |-> IF called
              THEN [s EXCEPT !.closes[PluginOf(s, p).instance.id] = Min({@ + 1, MaxCloses})]
              ELSE s,
        raised |-> close \in {"arity3", "raises"}]

\* unload, for one identifier
UnloadOne(s, p) ==
    IF ~Loaded(s, p) THEN [s |-> s, failed |-> TRUE]
    ELSE LET s1 == UnregisterPluginCallbacks(s, p)
             r  == UnloadPlugin(s1, p)
             j  == PluginIndex(r.s, p)
         IN [s |-> [r.s EXCEPT !.plugins = RemoveAt(@, j),
                                !.tasks = DropFromRoute(@, j)],
             failed |-> r.raised]

RECURSIVE UnloadFrom(_, _, _)
UnloadFrom(s, ids, failed) ==
    IF ids = << >> THEN [s |-> s, failed |-> failed]
    ELSE LET r == UnloadOne(s, Head(ids))
         IN UnloadFrom(r.s, Tail(ids), IF r.failed THEN Append(failed, Head(ids)) ELSE failed)

\* load: the loop body for the identifiers left, with the locals of the call
\* (failed_plugins, and callback_ids as the last iteration left it)
RECURSIVE LoadFrom(_, _, _, _, _)
LoadFrom(s, ids, srcs, failed, cids) ==
    IF ids = << >> THEN [s |-> s, failed |-> failed, raised |-> FALSE]
    ELSE
    LET p    == Head(ids)
        src  == Head(srcs)
        reload_flag == Loaded(s, p)
        s0   == IF reload_flag THEN UnloadPlugin(s, p).s ELSE s
        inst == s0.nextInst + 1
        s1   == [s0 EXCEPT !.nextInst = inst, !.closes = Append(@, 0)]
        reg  == RegisterPluginCallbacks(s1, src.callbacks, p, inst)
        ref  == NewRef(reg.s)
        cids1 == IF reg.ok THEN ref ELSE cids
        s2   == IF reg.ok
                THEN [reg.s EXCEPT !.cidHeap =
                        [r \in DOMAIN @ \cup {ref} |-> IF r = ref THEN reg.ids ELSE @[r]]]
                ELSE reg.s
        failed1 == IF reg.ok THEN failed ELSE Append(failed, p)
        s3   == IF Loaded(s2, p) THEN UnloadOne(s2, p).s ELSE s2
        unit == [name |-> p, module |-> p,
                 instance |-> [id |-> inst, close |-> src.close],
                 commands |-> src.commands, callbacks |-> src.callbacks,
                 callback_ids |-> cids1, blacklist |-> << >>]
        s4   == [s3 EXCEPT !.plugins = Append(@, unit),
                           !.reloads = IF reload_flag THEN @ + 1 ELSE @]
    IN IF ~src.import \/ src.setup \notin {"arity0", "arity1"}
       THEN LoadFrom(s0, Tail(ids), Tail(srcs), Append(failed, p), cids)
       ELSE IF cids1 = Unbound
            THEN [s |-> s3, failed |-> failed1, raised |-> TRUE]
            ELSE LoadFrom(s4, Tail(ids), Tail(srcs), failed1, cids1)

\* callback_ids dictionaries no unit record refers to any more are gone
Collect(s) ==
    LET live == {s.plugins[i].callback_ids : i \in DOMAIN s.plugins}
        first(r) == Min({i \in DOMAIN s.plugins : s.plugins[i].callback_ids = r})
    IN [s EXCEPT
          !.cidHeap = [n \in {first(r) : r \in live} |->
                          s.cidHeap[s.plugins[n].callback_ids]],
          !.plugins = [i \in DOMAIN s.plugins |->
                          [s.plugins[i] EXCEPT !.callback_ids = first(@)]]]

\* ------------------------------------------------------------- coroutines
Running(t) == t.phase \in {"cmd", "evt"}
Fail(t, err) == [t EXCEPT !.phase = "failed", !.error = err, !.cur = NoHandler, !.curType = ""]
Finish(t) == [t EXCEPT !.phase = "done", !.cur = NoHandler, !.curType = ""]
Invoke(t, h, type) == [t EXCEPT !.cur = h, !.curType = type, !.log = Append(@, h)]

\* message.partition(' ')[0]
Cmd(msg) == IF msg = << >> THEN "" ELSE msg[1]

\* cmd in command.commands / re.search(command.regex, message)
Matches(command, msg) ==
    \/ command.type = "command" /\ Cmd(msg) \in command.match
    \/ command.type = "regex" /\ \E i \in DOMAIN msg : msg[i] \in command.match

\* EventManager.fire from the top of its loop: the next callback of the kind
\* is started, or the loop ends, or the dictionary was found changed (strict:
\* the interpreter also counts the entries it yields)
FireLoop(s, t, strict) ==
    LET cbs == s.callbacks[t.kind]
    IN IF Len(cbs) # t.cused THEN Fail(t, "RuntimeError")
       ELSE IF t.cidx + 1 > Len(cbs) THEN Finish(t)
       ELSE IF strict /\ t.cseen = t.cused THEN Fail(t, "RuntimeError")
       ELSE LET e == cbs[t.cidx + 1]
            IN Invoke([t EXCEPT !.cidx = @ + 1, !.cseen = @ + 1],
                      [unit |-> e.unit, inst |-> e.inst, fn |-> e.fn, id |-> e.id], "event")

\* EventManager.fire is entered
FireStart(s, t, k) ==
    IF k \notin DOMAIN s.events THEN Fail(t, "EventDoesNotExistError")
    ELSE FireLoop(s, [t EXCEPT !.phase = "evt", !.kind = k, !.cidx = 0, !.cseen = 0,
                               !.cused = Len(s.callbacks[k]), !.result = None,
                               !.fired = IF t.origin = "privmsg" THEN @ + 1 ELSE @],
                  FALSE)

\* privmsg once fire_command has returned its result
Routed(s, t) ==
    LET t1 == [t EXCEPT !.routed = t.result, !.cur = NoHandler, !.curType = ""]
    IN IF t.result # STOP_ALL THEN FireStart(s, t1, "PRIVMSG") ELSE Finish(t1)

\* fire_command from the top of its loop, over itercommands(channel): the
\* next matching handler is started, or the units are exhausted
RECURSIVE RouteLoop(_, _, _)
RouteLoop(s, t, strict) ==
    IF t.cpos < Len(t.cmds)
    THEN LET c == t.cmds[t.cpos + 1]
             t1 == [t EXCEPT !.cpos = @ + 1]
         IN IF Matches(c, t.msg)
            THEN Invoke(t1, [t.unit EXCEPT !.fn = c.fn], c.type)
            ELSE RouteLoop(s, t1, strict)
    ELSE IF Len(s.plugins) # t.pused THEN Fail(t, "RuntimeError")
    ELSE IF t.pidx + 1 > Len(s.plugins) THEN Routed(s, t)
    ELSE IF strict /\ t.pseen = t.pused THEN Fail(t, "RuntimeError")
    ELSE LET u == s.plugins[t.pidx + 1]
             t1 == [t EXCEPT !.pidx = @ + 1, !.pseen = @ + 1]
         IN IF \E i \in DOMAIN u.blacklist : u.blacklist[i] = t.chan
            THEN RouteLoop(s, [t1 EXCEPT !.cmds = << >>, !.cpos = 0], strict)
            ELSE RouteLoop(s, [t1 EXCEPT !.cmds = u.commands, !.cpos = 0,
                                         !.unit = [NoHandler EXCEPT !.unit = u.name,
                                                                    !.inst = u.instance.id]],
                           strict)

\* what a handler can do when it runs to its end
Returns == {None, STOP, STOP_ALL}
Raises == {"EventRejectedMessage", "CommandNeedsArgsError", "AssertionError",
           "AssertionError@defer.py", "Exception"}

\* _deferassertion: an assertion raised in defer.py is dropped; for any other
\* the raise statement is reached (it is given the traceback, so what leaves
\* the except clause, and the loop, is a TypeError)
DeferAssertion(exc) == exc = "AssertionError@defer.py"

\* a fire whose loop goes on after a sentinel, keeping the sentinel as the
\* result so far: with it, callbacks after the one that stopped would run
FireAfterNoBreak(s, t, out, strict) ==
    IF out \in Returns
    THEN FireLoop(s, [t EXCEPT !.result = out], strict)
    ELSE IF out \in {"AssertionError", "AssertionError@defer.py"} /\ ~DeferAssertion(out)
         THEN Fail(t, "TypeError")
         ELSE FireLoop(s, t, strict)

\* the try statement of fire around one callback, after the callback ended
FireAfter(s, t, out, strict) ==
    IF out \in Returns
    THEN LET t1 == [t EXCEPT !.result = out]
         IN IF out \in {STOP, STOP_ALL} THEN Finish(t1) ELSE FireLoop(s, t1, strict)
    ELSE IF out \in {"AssertionError", "AssertionError@defer.py"} /\ ~DeferAssertion(out)
         THEN Fail(t, "TypeError")
         ELSE FireLoop(s, t, strict)

\* the try statements of fire_command around one handler
RouteAfter(s, t, out, strict) ==
    IF out \in Returns
    THEN LET t1 == [t EXCEPT !.result = out]
         IN IF out = STOP_ALL THEN Routed(s, t1) ELSE RouteLoop(s, t1, strict)
    ELSE IF out \in {"AssertionError", "AssertionError@defer.py"} /\ ~DeferAssertion(out)
         THEN Fail(t, "TypeError")
         ELSE RouteLoop(s, t, strict)

\* ------------------------------------------------------------- users and channels
\* nicks as they are spelled on the wire, and str.lower on them
Nicks == {"Al", "al", "Bo", "Cy"}
Lower(n) == CASE n = "Al" -> "al" [] n = "Bo" -> "bo" [] n = "Cy" -> "cy" [] OTHER -> n

\* Channel.__init__: the lists of a Channel object that was just made
ChannelLists == {"users", "qops", "sops", "aops", "hops", "vops"}
NewChannel == [users |-> << >>, qops |-> << >>, sops |-> << >>, aops |-> << >>,
               hops |-> << >>, vops |-> << >>, bans |-> << >>, modes |-> << >>]

\* User.__init__ for a mask without user and host
NewUser(nick) == [nick |-> nick, userhost |-> "", modes |-> << >>]

\* the users, the tracked channels and their state, as one record
Domain == [users |-> users, channels |-> channels, chanState |-> chanState, sent |-> << >>]
Tracked(d, c) == d.channels[c] # 0

\* list.remove(x): the first occurrence goes
ListRemove(l, x) == IF IndexOf(l, x) = 0 THEN l ELSE RemoveAt(l, IndexOf(l, x))

\* dict with one key set / one key deleted
DictSet(f, k, v) == [j \in DOMAIN f \cup {k} |-> IF j = k THEN v ELSE f[j]]
DictDel(f, k) == [j \in DOMAIN f \ {k} |-> f[j]]

\* an addUser that stores a new record whether or not the nick is tracked
AddUserOver(d, nick) == [d EXCEPT !.users = DictSet(@, Lower(nick), NewUser(nick))]

\* IRCClient.whois(nickname)
Whois(nick) == <<"WHOIS", nick>>

\* an addUser that asks about the nick whether or not it is tracked
AddUserAsking(d, nick) ==
    [d EXCEPT !.users = IF Lower(nick) \in DOMAIN @ THEN @ ELSE DictSet(@, Lower(nick), NewUser(nick)),
              !.sent = Append(@, Whois(nick))]

\* ForkingDongles.addUser: the record tracked under the lowercase nick; a
\* nick that is new is stored and asked about
AddUserTo(d, nick) ==
    IF Lower(nick) \in DOMAIN d.users THEN d
    ELSE [d EXCEPT !.users = DictSet(@, Lower(nick), NewUser(nick)),
                   !.sent = Append(@, Whois(nick))]

\* ForkingDongles.removeUser
RemoveUserFrom(d, nick) ==
    IF Lower(nick) \in DOMAIN d.users THEN [d EXCEPT !.users = DictDel(@, Lower(nick))] ELSE d

\* Channel.addUser
ChannelAddUser(ch, nick) ==
    IF Lower(nick) \in Range(ch.users) THEN ch
    ELSE [ch EXCEPT !.users = Append(@, Lower(nick))]

\* Channel.removeUser: the nick leaves the members and every privilege list
ChannelRemoveUser(ch, nick) ==
    [f \in DOMAIN ch |-> IF f \in ChannelLists THEN ListRemove(ch[f], Lower(nick)) ELSE ch[f]]

\* ForkingDongles.userJoined; the channel lookup fails after addUser has run
UserJoinedIn(d, nick, c) ==
    LET d1 == AddUserTo(d, nick)
        rec == d1.users[Lower(nick)]
    IN IF ~Tracked(d1, c) THEN [d |-> d1, raised |-> TRUE]
       ELSE [d |-> [d1 EXCEPT !.chanState[c] = ChannelAddUser(@, rec.nick)], raised |-> FALSE]

\* a part that purges the user whatever the other channels list
UserLeftPurging(d, nick, c) ==
    IF Lower(nick) \notin DOMAIN d.users \/ ~Tracked(d, c) THEN [d |-> d, raised |-> TRUE]
    ELSE LET rec == d.users[Lower(nick)]
             d1 == [d EXCEPT !.chanState[c] = ChannelRemoveUser(@, rec.nick)]
         IN [d |-> RemoveUserFrom(d1, rec.nick), raised |-> FALSE]

\* ForkingDongles.userLeft and userKicked: the user is purged when no tracked
\* channel lists the nick any more
UserLeftFrom(d, nick, c) ==
    IF Lower(nick) \notin DOMAIN d.users \/ ~Tracked(d, c) THEN [d |-> d, raised |-> TRUE]
    ELSE LET rec == d.users[Lower(nick)]
             d1 == [d EXCEPT !.chanState[c] = ChannelRemoveUser(@, rec.nick)]
             listed == \E c2 \in ChannelNames :
                          Tracked(d1, c2) /\ Lower(rec.nick) \in Range(d1.chanState[c2].users)
         IN [d |-> IF listed THEN d1 ELSE RemoveUserFrom(d1, rec.nick), raised |-> FALSE]

\* ForkingDongles.userQuit: the map over the channels is never consumed, so
\* Channel.removeUser is not called
UserQuitFrom(d, nick) == [d |-> RemoveUserFrom(d, nick), raised |-> FALSE]

\* ForkingDongles.userRenamed with renameUser: the new key is set, the key of
\* the record's nick is deleted, then the record is looked up under the new
\* key to take the new nick; the map over the channels is never consumed
UserRenamedTo(d, old, new) ==
    IF Lower(old) \notin DOMAIN d.users THEN [d |-> d, raised |-> TRUE]
    ELSE LET rec == d.users[Lower(old)]
             u1 == DictSet(d.users, Lower(new), rec)
             u2 == IF Lower(rec.nick) \in DOMAIN u1 THEN DictDel(u1, Lower(rec.nick)) ELSE u1
         IN IF Lower(rec.nick) \notin DOMAIN u1 \/ Lower(new) \notin DOMAIN u2
            THEN [d |-> [d EXCEPT !.users = u2], raised |-> TRUE]
            ELSE [d |-> [d EXCEPT !.users = [u2 EXCEPT ![Lower(new)].nick = new]],
                  raised |-> FALSE]

\* str.replace(mode, ''): every occurrence of the letter goes
Without(l, x) == SelectSeq(l, LAMBDA y : y # x)

\* User.setMode(added, mode, arg); modes is a string, here a sequence of letters
UserSetMode(u, added, mode, arg) ==
    IF added /\ mode \notin Range(u.modes) THEN [u EXCEPT !.modes = Append(@, mode)]
    ELSE IF ~added /\ mode \in Range(u.modes) THEN [u EXCEPT !.modes = Without(@, mode)]
    ELSE u

\* op_translations of Channel.setMode: the list a privilege letter names
OpLetters == {"q", "a", "o", "h", "v"}
OpList(mode) == CASE mode = "q" -> "qops" [] mode = "a" -> "sops" [] mode = "o" -> "aops"
                  [] mode = "h" -> "hops" [] mode = "v" -> "vops"

\* a setMode that adds without looking whether the entry is there
ChannelSetModeAgain(ch, added, mode, arg) ==
    IF added
    THEN IF arg # None
         THEN IF mode \in OpLetters THEN [ch EXCEPT ![OpList(mode)] = Append(@, Lower(arg))]
              ELSE IF mode = "b" THEN [ch EXCEPT !.bans = Append(@, Lower(arg))]
              ELSE ch
         ELSE [ch EXCEPT !.modes = Append(@, mode)]
    ELSE IF arg # None
         THEN IF mode \in OpLetters THEN [ch EXCEPT ![OpList(mode)] = ListRemove(@, Lower(arg))]
              ELSE IF mode = "b" THEN [ch EXCEPT !.bans = ListRemove(@, Lower(arg))]
              ELSE ch
         ELSE [ch EXCEPT !.modes = Without(@, mode)]

\* Channel.setMode(added, mode, arg)
ChannelSetMode(ch, added, mode, arg) ==
    IF added
    THEN IF arg # None
         THEN IF mode \in OpLetters /\ Lower(arg) \notin Range(ch[OpList(mode)])
              THEN [ch EXCEPT ![OpList(mode)] = Append(@, Lower(arg))]
              ELSE IF mode = "b" /\ Lower(arg) \notin Range(ch.bans)
              THEN [ch EXCEPT !.bans = Append(@, Lower(arg))]
              ELSE ch
         ELSE IF mode \notin Range(ch.modes) THEN [ch EXCEPT !.modes = Append(@, mode)] ELSE ch
    ELSE IF arg # None
         THEN IF mode \in OpLetters /\ Lower(arg) \in Range(ch[OpList(mode)])
              THEN [ch EXCEPT ![OpList(mode)] = ListRemove(@, Lower(arg))]
              ELSE IF mode = "b" /\ Lower(arg) \in Range(ch.bans)
              THEN [ch EXCEPT !.bans = ListRemove(@, Lower(arg))]
              ELSE ch
         ELSE IF mode \in Range(ch.modes) THEN [ch EXCEPT !.modes = Without(@, mode)] ELSE ch

\* the loop of modeChanged over the letters; changes[x] = <<modes[x], args[x]>>
RECURSIVE UserSetModes(_, _, _)
UserSetModes(u, added, changes) ==
    IF changes = << >> THEN u
    ELSE UserSetModes(UserSetMode(u, added, Head(changes)[1], Head(changes)[2]),
                      added, Tail(changes))

RECURSIVE ChannelSetModes(_, _, _)
ChannelSetModes(ch, added, changes) ==
    IF changes = << >> THEN ch
    ELSE ChannelSetModes(ChannelSetMode(ch, added, Head(changes)[1], Head(changes)[2]),
                         added, Tail(changes))

\* ForkingDongles.modeChanged(user, channel, added, modes, args): a target
\* that starts with # is a channel, any other a nick
ModeChangedIn(d, target, added, changes) ==
    IF target \notin ChannelNames
    THEN IF Lower(target) \in DOMAIN d.users
         THEN [d EXCEPT !.users[Lower(target)] = UserSetModes(@, added, changes)]
         ELSE d
    ELSE IF Tracked(d, target)
         THEN [d EXCEPT !.chanState[target] = ChannelSetModes(@, added, changes)]
         ELSE d

\* irc.parseModes(modes, args, paramModes) on a line: IRCBadModes, or the
\* changes the line adds
ParseModes(line) == [raised |-> line.bad, added |-> IF line.bad THEN << >> ELSE line.changes]

\* a handler that applies the changes read before the line stopped parsing
ChannelModeIsPartial(d, c, line) ==
    IF line.changes = << >> THEN [d |-> d, raised |-> FALSE, logged |-> line.bad]
    ELSE [d |-> ModeChangedIn(d, c, TRUE, line.changes), raised |-> FALSE, logged |-> line.bad]

\* ForkingDongles.irc_RPL_CHANNELMODEIS: a line that does not parse is logged;
\* zip(*added) of a line that adds nothing raises ValueError
ChannelModeIsIn(d, c, line) ==
    LET parsed == ParseModes(line)
    IN IF parsed.raised THEN [d |-> d, raised |-> FALSE, logged |-> TRUE]
       ELSE IF parsed.added = << >> THEN [d |-> d, raised |-> TRUE, logged |-> FALSE]
       ELSE [d |-> ModeChangedIn(d, c, TRUE, parsed.added), raised |-> FALSE, logged |-> FALSE]

\* ForkingDongles.irc_RPL_WHOISUSER: a nick that is not tracked gets a record,
\* a tracked one has user and host set
WhoisUserIn(d, nick, userhost) ==
    IF Lower(nick) \notin DOMAIN d.users
    THEN [d EXCEPT !.users = DictSet(@, Lower(nick), [NewUser(nick) EXCEPT !.userhost = userhost])]
    ELSE [d EXCEPT !.users[Lower(nick)].userhost = userhost]

\* irc_RPL_WHOISOPERATOR, irc_330, irc_671: the flag of the reply
WhoisFlags == [irc_RPL_WHOISOPERATOR |-> "o", irc_330 |-> "r", irc_671 |-> "z"]
WhoisFlagIn(d, reply, nick) ==
    IF Lower(nick) \in DOMAIN d.users
    THEN [d EXCEPT !.users[Lower(nick)] = UserSetMode(@, TRUE, WhoisFlags[reply], None)]
    ELSE d

\* the mode_translation table irc_RPL_NAMREPLY builds in when the server
\* advertises no PREFIX feature
BuiltinPrefixes == [p \in {"~", "&", "@", "%", "+"} |->
                      CASE p = "~" -> "q" [] p = "&" -> "a" [] p = "@" -> "o"
                        [] p = "%" -> "h" [] p = "+" -> "v"]

\* the table in use: supported.hasFeature('PREFIX') and, when it has, the
\* symbols of supported.getFeature('PREFIX') mapped to their letters
ModeTranslation(supported) == IF supported.has THEN supported.prefix ELSE BuiltinPrefixes

\* the loop over nicks.split(): every nick is added to the registry and to
\* the channel, its prefix stripped; a channel that is not tracked fails the
\* lookup after the first nick has gone into the registry
RECURSIVE NamesLoop(_, _, _)
NamesLoop(d, c, names) ==
    IF names = << >> THEN [d |-> d, raised |-> FALSE]
    ELSE LET d1 == AddUserTo(d, Head(names).nick)
         IN IF ~Tracked(d1, c) THEN [d |-> d1, raised |-> TRUE]
            ELSE NamesLoop([d1 EXCEPT !.chanState[c] = ChannelAddUser(@, Head(names).nick)],
                           c, Tail(names))

\* modes and args as the loop collects them: one letter and one nick for
\* every name that carries a prefix of the table
PrefixChanges(names, table) ==
    LET marked == SelectSeq(names, LAMBDA n : n.prefix \in DOMAIN table)
    IN [i \in DOMAIN marked |-> <<table[marked[i].prefix], marked[i].nick>>]

\* a name-list handler that adds the members and applies no privilege
NamReplyMembersOnly(d, c, names, supported) == NamesLoop(d, c, names)

\* ForkingDongles.irc_RPL_NAMREPLY(prefix, params)
NamReplyIn(d, c, names, supported) ==
    LET r == NamesLoop(d, c, names)
    IN IF r.raised THEN r
       ELSE [d |-> ModeChangedIn(r.d, c, TRUE, PrefixChanges(names, ModeTranslation(supported))),
             raised |-> FALSE]

\* ------------------------------------------------------------- actions
Apply(s) ==
    /\ events' = s.events
    /\ callbacks' = s.callbacks
    /\ plugins' = s.plugins
    /\ cidHeap' = s.cidHeap
    /\ nextInst' = s.nextInst
    /\ nextId' = s.nextId
    /\ reloads' = s.reloads
    /\ closes' = s.closes
    /\ tasks' = s.tasks

Seqs(S, n) == UNION {[1..m -> S] : m \in 1..n}

Op(name, args, failed, raised) ==
    [name |-> name, args |-> args, failed |-> failed, raised |-> raised]

\* ForkingDongles.signedOn: the event kinds are declared, nothing is loaded
Init ==
    /\ events = [k \in {"PRIVMSG"} |-> 3]
    /\ callbacks = [k \in Kinds |-> << >>]
    /\ plugins = << >>
    /\ cidHeap = << >>
    /\ nextInst = 0
    /\ nextId = 0
    /\ reloads = 0
    /\ channels = [c \in ChannelNames |-> 0]
    /\ users = << >>
    /\ chanState = [c \in ChannelNames |-> NewChannel]
    /\ closes = << >>
    /\ timers = << >>
    /\ connected = TRUE
    /\ sent = << >>
    /\ tasks = [t \in 1..(MaxMsgs + MaxFires) |-> IdleTask]
    /\ op = Op("signedOn", << >>, << >>, FALSE)

\* PluginManager.load(*plugins); srcs is what each import finds on disk
Load(ids, srcs) ==
    /\ Len(ids) = Len(srcs)
    /\ nextInst + Len(ids) <= MaxLoads
    /\ nextId <= MaxPluginRegs
    /\ LET r == LoadFrom(State, ids, srcs, << >>, Unbound)
       IN /\ Apply(Collect(r.s))
          /\ op' = Op("load", ids, r.failed, r.raised)
    /\ UNCHANGED <<channels, users, chanState>>
    /\ Silent

\* PluginManager.unload(*plugins)
Unload(ids) ==
    /\ LET r == UnloadFrom(State, ids, << >>)
       IN /\ Apply(Collect(r.s))
          /\ op' = Op("unload", ids, r.failed, FALSE)
    /\ UNCHANGED <<channels, users, chanState>>
    /\ Silent

\* values a caller can hand to blacklist: channel names, tracked Channel objects
ChannelValues == {ChannelStr(c) : c \in MsgChannels}
                 \cup {ChannelObj(channels[c]) : c \in {d \in MsgChannels : channels[d] # 0}}

\* PluginManager.blacklist(plugin, *channels)
Blacklist(p, chans) ==
    /\ IF ~Loaded(State, p)
       THEN /\ UNCHANGED plugins
            /\ op' = Op("blacklist", <<p>> \o chans, << >>, FALSE)
       ELSE /\ Len(PluginOf(State, p).blacklist) + Len(chans) <= MaxBlacklist
            /\ plugins' = [plugins EXCEPT ![PluginIndex(State, p)].blacklist = @ \o chans]
            /\ op' = Op("blacklist", <<p>> \o chans, << >>, FALSE)
    /\ tasks' = Reap(tasks)
    /\ UNCHANGED <<events, callbacks, cidHeap, nextInst, nextId, reloads, closes, channels, users, chanState>>
    /\ Silent

\* the loop of unblacklist: list.remove drops the first occurrence
RECURSIVE UnblacklistFrom(_, _, _)
UnblacklistFrom(bl, chans, missing) ==
    IF chans = << >> THEN [bl |-> bl, missing |-> missing]
    ELSE IF IndexOf(bl, Head(chans)) = 0
         THEN UnblacklistFrom(bl, Tail(chans), Append(missing, Head(chans)))
         ELSE UnblacklistFrom(RemoveAt(bl, IndexOf(bl, Head(chans))), Tail(chans), missing)

\* PluginManager.unblacklist(plugin, *channels)
Unblacklist(p, chans) ==
    /\ IF ~Loaded(State, p)
       THEN /\ UNCHANGED plugins
            /\ op' = Op("unblacklist", <<p>> \o chans, << >>, FALSE)
       ELSE LET r == UnblacklistFrom(PluginOf(State, p).blacklist, chans, << >>)
            IN /\ plugins' = [plugins EXCEPT ![PluginIndex(State, p)].blacklist = r.bl]
               /\ op' = Op("unblacklist", <<p>> \o chans, r.missing, FALSE)
    /\ tasks' = Reap(tasks)
    /\ UNCHANGED <<events, callbacks, cidHeap, nextInst, nextId, reloads, closes, channels, users, chanState>>
    /\ Silent

\* Channel objects something still refers to
HeldObjects ==
    {channels[c] : c \in ChannelNames}
    \cup {plugins[i].blacklist[j].obj : <<i, j>> \in {<<i, j>> \in (DOMAIN plugins) \X (1..MaxBlacklist + 1) :
                                                        j \in DOMAIN plugins[i].blacklist}}
    \cup {tasks[t].chan.obj : t \in DOMAIN tasks}

\* the lines joined asks the reactor to send later
ModeQuery(c) == <<"MODE", c>>
BanQuery(c) == <<"MODE", c, "b">>

\* ForkingDongles.joined: a Channel object is made for a channel not yet
\* tracked and the two queries are scheduled
Joined(c) ==
    /\ channels' = IF channels[c] # 0 THEN channels
                   ELSE [channels EXCEPT ![c] =
                           Min({n \in 1..(Cardinality(HeldObjects) + 1) : n \notin HeldObjects})]
    /\ chanState' = IF channels[c] # 0 THEN chanState ELSE [chanState EXCEPT ![c] = NewChannel]
    /\ timers' = timers \o <<ModeQuery(c), BanQuery(c)>>
    /\ sent' = << >>
    /\ op' = Op("joined", <<c>>, << >>, FALSE)
    /\ tasks' = Reap(tasks)
    /\ UNCHANGED <<engine, users, connected>>

\* a part that cancels what is scheduled
LeftCancelling(c) ==
    /\ channels' = [channels EXCEPT ![c] = 0]
    /\ chanState' = [chanState EXCEPT ![c] = NewChannel]
    /\ timers' = << >>
    /\ sent' = << >>
    /\ op' = Op("left", <<c>>, << >>, FALSE)
    /\ tasks' = Reap(tasks)
    /\ UNCHANGED <<engine, users, connected>>

\* ForkingDongles.left / kickedFrom
Left(c) ==
    /\ channels' = [channels EXCEPT ![c] = 0]
    /\ chanState' = [chanState EXCEPT ![c] = NewChannel]
    /\ op' = Op("left", <<c>>, << >>, FALSE)
    /\ tasks' = Reap(tasks)
    /\ UNCHANGED <<engine, users>>
    /\ Silent

\* the reactor runs the delayed call that is due: sendLine(line)
SendDue ==
    /\ timers # << >>
    /\ timers' = Tail(timers)
    /\ sent' = <<Head(timers)>>
    /\ op' = Op("sendLine", Head(timers), << >>, FALSE)
    /\ tasks' = Reap(tasks)
    /\ UNCHANGED <<engine, users, channels, chanState, connected>>

\* ForkingDongles.connectionLost: nothing that is scheduled is cancelled
ConnectionLost ==
    /\ connected
    /\ connected' = FALSE
    /\ sent' = << >>
    /\ op' = Op("connectionLost", << >>, << >>, FALSE)
    /\ tasks' = Reap(tasks)
    /\ UNCHANGED <<engine, users, channels, chanState, timers>>

\* the session's users and channels take the value d
ApplyDomain(d) ==
    /\ users' = d.users
    /\ chanState' = d.chanState
    /\ sent' = d.sent
    /\ tasks' = Reap(tasks)
    /\ UNCHANGED <<engine, channels, timers, connected>>

\* ForkingDongles.addUser(user)
AddUser(nick) ==
    /\ ApplyDomain(AddUserTo(Domain, nick))
    /\ op' = Op("addUser", <<nick>>, <<users'[Lower(nick)].nick>>, FALSE)

\* ForkingDongles.userJoined(user, channel)
UserJoined(nick, c) ==
    LET r == UserJoinedIn(Domain, nick, c)
    IN ApplyDomain(r.d) /\ op' = Op("userJoined", <<nick, c>>, << >>, r.raised)

\* ForkingDongles.userLeft(user, channel)
UserLeft(nick, c) ==
    LET r == UserLeftFrom(Domain, nick, c)
    IN ApplyDomain(r.d) /\ op' = Op("userLeft", <<nick, c>>, << >>, r.raised)

\* ForkingDongles.userKicked(user, channel, kicker, message)
UserKicked(nick, c) ==
    LET r == UserLeftFrom(Domain, nick, c)
    IN ApplyDomain(r.d) /\ op' = Op("userKicked", <<nick, c>>, << >>, r.raised)

\* ForkingDongles.userQuit(user, message)
UserQuit(nick) ==
    LET r == UserQuitFrom(Domain, nick)
    IN ApplyDomain(r.d) /\ op' = Op("userQuit", <<nick>>, << >>, r.raised)

\* ForkingDongles.userRenamed(old, new); a server renames to a nick that is
\* free or is the old nick in another letter case
UserRenamed(old, new) ==
    /\ old # new
    /\ Lower(new) = Lower(old) \/ Lower(new) \notin DOMAIN users
    /\ LET r == UserRenamedTo(Domain, old, new)
       IN ApplyDomain(r.d) /\ op' = Op("userRenamed", <<old, new>>, << >>, r.raised)

\* ForkingDongles.modeChanged(user, channel, added, modes, args); the
\* operation records whether anything changed
ModeChanged(target, added, changes) ==
    LET d == ModeChangedIn(Domain, target, added, changes)
    IN /\ ApplyDomain(d)
       /\ op' = Op("modeChanged", <<target, added, changes>>, <<d # Domain>>, FALSE)

\* ForkingDongles.irc_RPL_CHANNELMODEIS(prefix, params)
ChannelModeIs(c, line) ==
    LET r == ChannelModeIsIn(Domain, c, line)
    IN ApplyDomain(r.d) /\ op' = Op("irc_RPL_CHANNELMODEIS", <<c, line>>, <<r.logged>>, r.raised)

\* ForkingDongles.irc_RPL_NAMREPLY(prefix, params); a server marks names
\* only with the prefixes of the table in use
NamReply(c, names, supported) ==
    /\ \A i \in DOMAIN names :
          names[i].prefix = None \/ names[i].prefix \in DOMAIN ModeTranslation(supported)
    /\ LET r == NamReplyIn(Domain, c, names, supported)
       IN ApplyDomain(r.d) /\ op' = Op("irc_RPL_NAMREPLY", <<c, names, supported>>, << >>, r.raised)

\* ForkingDongles.irc_RPL_WHOISUSER(prefix, params)
WhoisUser(nick, userhost) ==
    /\ ApplyDomain(WhoisUserIn(Domain, nick, userhost))
    /\ op' = Op("irc_RPL_WHOISUSER", <<nick, userhost>>, << >>, FALSE)

\* irc_RPL_WHOISOPERATOR / irc_330 / irc_671 (prefix, params)
WhoisFlag(reply, nick) ==
    /\ ApplyDomain(WhoisFlagIn(Domain, reply, nick))
    /\ op' = Op(reply, <<nick>>, << >>, FALSE)

FreeSlots == {t \in DOMAIN tasks : ~Running(tasks[t])}
InProgress(origin) == Cardinality({t \in DOMAIN tasks : Running(tasks[t]) /\ tasks[t].origin = origin})

\* ForkingDongles.privmsg up to the first handler it starts
Privmsg(c, msg) ==
    /\ InProgress("privmsg") < MaxMsgs
    /\ LET slot == Min(FreeSlots)
           t0 == [IdleTask EXCEPT !.phase = "cmd", !.origin = "privmsg", !.chanName = c,
                                  !.chan = IF channels[c] # 0 THEN ChannelObj(channels[c])
                                           ELSE ChannelObj(-1),
                                  !.msg = msg, !.pused = Len(plugins)]
       IN /\ tasks' = [Reap(tasks) EXCEPT ![slot] = RouteLoop(State, t0, FALSE)]
          /\ op' = Op("privmsg", <<slot>>, << >>, FALSE)
    /\ UNCHANGED <<events, callbacks, plugins, cidHeap, nextInst, nextId, reloads, closes, channels, users, chanState>>
    /\ Silent

\* EventManager.fire(name, ...) up to the first callback it starts
Fire(k) ==
    /\ InProgress("fire") < MaxFires
    /\ LET slot == Min(FreeSlots)
           t0 == [IdleTask EXCEPT !.origin = "fire", !.kind = k]
       IN /\ tasks' = [Reap(tasks) EXCEPT ![slot] = FireStart(State, t0, k)]
          /\ op' = Op("fire", <<slot>>, << >>, FALSE)
    /\ UNCHANGED <<events, callbacks, plugins, cidHeap, nextInst, nextId, reloads, closes, channels, users, chanState>>
    /\ Silent

\* the handler in flight ends with out; its coroutine runs on to the next
\* handler it starts, or to its end (the interpreters differ only once the
\* iterator has yielded as many entries as the dictionary held at the start)
Complete(slot, out, strict) ==
    /\ Running(tasks[slot])
    /\ strict => IF tasks[slot].phase = "cmd"
                 THEN tasks[slot].pseen = tasks[slot].pused
                 ELSE tasks[slot].cseen = tasks[slot].cused
    /\ LET t == tasks[slot]
       IN tasks' = [Reap(tasks) EXCEPT ![slot] = IF t.phase = "cmd" THEN RouteAfter(State, t, out, strict)
                                           ELSE FireAfter(State, t, out, strict)]
    /\ op' = Op("complete", <<slot>>, <<out>>, FALSE)
    /\ UNCHANGED <<events, callbacks, plugins, cidHeap, nextInst, nextId, reloads, closes, channels, users, chanState>>
    /\ Silent

\* callables registered without a plugin unit
DirectCallbacks == {[fn |-> "f", events |-> << >>, arglen |-> 3, varargs |-> FALSE],
                    [fn |-> "g", events |-> << >>, arglen |-> 1, varargs |-> FALSE]}

\* EventManager.register_callback(name, callback)
RegisterCallbackCall(k, cb) ==
    /\ nextId < MaxRegs
    /\ LET r == RegisterCallback(State, k, cb, "", 0)
       IN /\ Apply(r.s)
          /\ op' = Op("register_callback", <<r.id>>, << >>, ~r.ok)
    /\ UNCHANGED <<channels, users, chanState>>
    /\ Silent

\* EventManager.register(name, arglen)
Arities == {1, 3}
Register(k, arglen) ==
    /\ LET r == RegisterEvent(State, k, arglen)
       IN /\ Apply(r.s)
          /\ op' = Op("register", <<k, arglen>>, << >>, r.raised)
    /\ UNCHANGED <<channels, users, chanState>>
    /\ Silent

\* EventManager.unregister_callback(name, callback_id)
UnregisterCallbackCall(k, id) ==
    /\ Apply(UnregisterCallback(State, k, id))
    /\ op' = Op("unregister_callback", <<id>>, << >>, FALSE)
    /\ UNCHANGED <<channels, users, chanState>>
    /\ Silent

Messages == {<<"go">>, <<"go", "hi">>}
Outcomes == Returns \cup Raises

DoLoad == \E ids \in Seqs(PluginIds, MaxBatch), srcs \in Seqs(Sources, MaxBatch) : Load(ids, srcs)
DoUnload == \E ids \in Seqs(PluginIds, MaxBatch) : Unload(ids)
DoBlacklist == \E p \in PluginIds, chans \in Seqs(ChannelValues, 1) : Blacklist(p, chans)
DoUnblacklist == \E p \in PluginIds, chans \in Seqs(ChannelValues, 1) : Unblacklist(p, chans)
DoJoined == \E c \in ChannelNames : Joined(c)
DoLeft == \E c \in ChannelNames : Left(c)
DoPrivmsg == \E c \in MsgChannels, msg \in Messages : Privmsg(c, msg)
DoFire == \E k \in Kinds : Fire(k)
DoComplete == \E slot \in DOMAIN tasks, out \in Outcomes, strict \in BOOLEAN :
                 Complete(slot, out, strict)
DoRegisterCallback == \E k \in Kinds, cb \in DirectCallbacks : RegisterCallbackCall(k, cb)
DoUnregisterCallback == \E k \in Kinds, id \in 1..MaxRegs : UnregisterCallbackCall(k, id)
DoRegister == \E k \in Kinds, arglen \in Arities : Register(k, arglen)

\* the plugin engine on its own
NextPlugins == DoLoad \/ DoUnload
SpecPlugins == Init /\ [][NextPlugins]_vars

\* the event registry on its own
NextFire == DoRegisterCallback \/ DoUnregisterCallback \/ DoFire \/ DoComplete
SpecFire == Init /\ [][NextFire]_vars

\* kinds are declared while callbacks are registered and events fired
NextDeclare == DoRegister \/ DoRegisterCallback \/ DoFire \/ DoComplete
SpecDeclare == Init /\ [][NextDeclare]_vars

\* the queries of the last join have gone out: below, where the delayed
\* calls are not what is looked at, they run before the next line arrives
Settled == timers = << >>
DoSendDue == SendDue

\* no coroutine is in progress
Quiet == \A t \in DOMAIN tasks : ~Running(tasks[t])

\* message routing: units are loaded one at a time, between messages
RouteSources == {SrcOne, SrcTwo, SrcBoth}
DoLoadOne == \E p \in PluginIds, src \in RouteSources :
                /\ nextInst < MaxRouteLoads
                /\ Quiet
                /\ Load(<<p>>, <<src>>)
NextRoute == DoLoadOne \/ DoPrivmsg \/ DoComplete
SpecRoute == Init /\ [][NextRoute]_vars

\* the per-unit channel blacklist, one message at a time
DoLoadPlain == \E p \in PluginIds :
                  /\ nextInst < MaxRouteLoads
                  /\ Quiet
                  /\ Load(<<p>>, <<SrcOne>>)
DoBlacklistQuiet == Quiet /\ DoBlacklist
DoUnblacklistQuiet == Quiet /\ DoUnblacklist
DoJoinedQuiet == Quiet /\ \E c \in MsgChannels : Joined(c)
DoLeftQuiet == Quiet /\ \E c \in MsgChannels : Left(c)
DoPrivmsgAlone == Quiet /\ DoPrivmsg
NextBlacklist == \/ Settled /\ (DoLoadPlain \/ DoBlacklistQuiet \/ DoUnblacklistQuiet
                                \/ DoJoinedQuiet \/ DoLeftQuiet \/ DoPrivmsgAlone \/ DoComplete)
                 \/ DoSendDue
SpecBlacklist == Init /\ [][NextBlacklist]_vars

\* users come and go on two channels; the server hands out operator status
SeenNicks == {"Al", "al", "Bo"}
DoAddUser == \E nick \in SeenNicks : AddUser(nick)
DoUserJoined == \E nick \in SeenNicks, c \in ChannelNames : UserJoined(nick, c)
DoUserLeft == \E nick \in SeenNicks, c \in ChannelNames : UserLeft(nick, c)
DoUserKicked == \E nick \in SeenNicks, c \in ChannelNames : UserKicked(nick, c)
DoUserQuit == \E nick \in SeenNicks : UserQuit(nick)
DoUserRenamed == \E old \in SeenNicks, new \in SeenNicks : UserRenamed(old, new)
DoOp == \E nick \in {"Al", "Bo"}, c \in ChannelNames : ModeChanged(c, TRUE, <<<<"o", nick>>>>)
NextUsers == \/ Settled /\ (DoJoined \/ DoLeft \/ DoAddUser \/ DoUserJoined \/ DoUserLeft
                            \/ DoUserKicked \/ DoUserQuit \/ DoUserRenamed \/ DoOp)
             \/ DoSendDue
SpecUsers == Init /\ [][NextUsers]_vars

\* mode changes on one channel and one user
MaxModes == 2
ModePairs == {<<"o", "Al">>, <<"b", "Al">>, <<"m", None>>}
ModeTargets == {"#c", "Al"}
ModeLines == [changes : {<< >>} \cup Seqs(ModePairs, MaxModes), bad : BOOLEAN]
DoAddUserOne == AddUser("Al")
DoModeChanged == \E target \in ModeTargets, added \in BOOLEAN, changes \in Seqs(ModePairs, MaxModes) :
                    ModeChanged(target, added, changes)
DoChannelModeIs == \E c \in MsgChannels, line \in ModeLines : ChannelModeIs(c, line)
NextModes == \/ Settled /\ (DoJoinedQuiet \/ DoLeftQuiet \/ DoAddUserOne \/ DoModeChanged
                            \/ DoChannelModeIs)
             \/ DoSendDue
SpecModes == Init /\ [][NextModes]_vars

\* name lists arrive for a channel the client is on, in one or more replies
\* that fill the membership up to MaxNames; a reply lists nicks that are not
\* members yet, and no spelling twice
MaxNames == 3
ListedNicks == {"Al", "al", "Bo", "Cy"}
Names == [prefix : DOMAIN BuiltinPrefixes \cup {None}, nick : ListedNicks]
\* what the server advertises: nothing, or PREFIX=(ov)@+
Supported == {[has |-> FALSE, prefix |-> << >>],
              [has |-> TRUE, prefix |-> [p \in {"@", "+"} |-> IF p = "@" THEN "o" ELSE "v"]]}
NamesLeft(c) == IF channels[c] # 0 THEN MaxNames - Len(chanState[c].users) ELSE 0
DoNamReply == \E c \in MsgChannels, supported \in Supported :
                 \E names \in Seqs(Names, NamesLeft(c)) :
                    /\ \A i \in DOMAIN names :
                          /\ Lower(names[i].nick) \notin Range(chanState[c].users)
                          /\ \A j \in DOMAIN names : names[j].nick = names[i].nick => j = i
                    /\ NamReply(c, names, supported)
NextNames == (Settled /\ (DoJoinedQuiet \/ DoNamReply)) \/ DoSendDue
SpecNames == Init /\ [][NextNames]_vars

\* the lines a server sends about channels and users: another user's join
\* names a channel the client is on
DoUserJoinedOn == \E nick \in SeenNicks, c \in ChannelNames : channels[c] # 0 /\ UserJoined(nick, c)
DoWhoisUserOne == \E nick \in SeenNicks : WhoisUser(nick, "u@h")
NextLines == \/ Settled /\ (DoJoined \/ DoLeft \/ DoUserJoinedOn \/ DoUserLeft \/ DoUserKicked
                            \/ DoUserQuit \/ DoUserRenamed \/ DoWhoisUserOne)
             \/ DoSendDue
SpecLines == Init /\ [][NextLines]_vars

\* users are added and asked about while the replies to the queries arrive
UserHosts == {"u@h", "v@i"}
AskedNicks == {"Al", "al"}
DoWhoisUser == \E nick \in AskedNicks, userhost \in UserHosts : WhoisUser(nick, userhost)
DoWhoisFlag == \E reply \in DOMAIN WhoisFlags, nick \in AskedNicks : WhoisFlag(reply, nick)
NextWhois == \/ Settled /\ (DoJoinedQuiet \/ DoAddUser \/ DoUserJoinedOn \/ DoUserQuit
                            \/ DoUserRenamed \/ DoWhoisUser \/ DoWhoisFlag)
             \/ DoSendDue
SpecWhois == Init /\ [][NextWhois]_vars

\* channels are joined and left while the delayed queries of earlier joins
\* are pending; lines are handled as long as the connection is up, and the
\* reactor runs every delayed call that is due
MaxTimers == 4
DoJoinedLater == \E c \in ChannelNames : connected /\ Len(timers) + 2 <= MaxTimers /\ Joined(c)
DoLeftOn == \E c \in ChannelNames : connected /\ channels[c] # 0 /\ Left(c)
DoConnectionLost == ConnectionLost
NextTimers == DoJoinedLater \/ DoLeftOn \/ DoConnectionLost \/ DoSendDue
SpecTimers == Init /\ [][NextTimers]_vars
SpecTimersFair == SpecTimers /\ WF_vars(SendDue)

Next == DoLoad \/ DoUnload \/ DoBlacklist \/ DoUnblacklist \/ DoJoined \/ DoLeft
        \/ DoPrivmsg \/ DoFire \/ DoComplete \/ DoRegisterCallback \/ DoUnregisterCallback
        \/ DoRegister
Spec == Init /\ [][Next]_vars

\* ------------------------------------------------------------- properties
Registered(cbs, k, id) == \E i \in DOMAIN cbs[k] : cbs[k][i].id = id
Occurs(ids, p) == Cardinality({i \in DOMAIN ids : ids[i] = p})
\* the callback ids the record of unit p holds for kind k
HeldIds(s, p, k) == Range(s.cidHeap[PluginOf(s, p).callback_ids][k])
Sentinels == {STOP, STOP_ALL}
LogIds(t) == [i \in DOMAIN t.log |-> t.log[i].id]

\* C11: register on a kind that is declared fails and changes neither the
\* declared arity nor any callback set; fire on a kind that is not declared
\* fails with EventDoesNotExistError and invokes no callback; and these are
\* the only ways the two fail.
DeclaredOnce ==
    [][/\ op'.name = "register"
          => /\ op'.raised <=> op'.args[1] \in DOMAIN events
             /\ op'.raised => events' = events /\ callbacks' = callbacks
             /\ callbacks' = callbacks
             /\ \A k \in DOMAIN events : k \in DOMAIN events' /\ events'[k] = events[k]
       /\ \A slot \in DOMAIN tasks :
             (op'.name = "fire" /\ op'.args = <<slot>>)
             => LET u == tasks'[slot]
                IN /\ u.kind \notin DOMAIN events
                      <=> (u.phase = "failed" /\ u.error = "EventDoesNotExistError")
                   /\ u.kind \notin DOMAIN events
                      => /\ u.log = << >> /\ u.cur = NoHandler
                         /\ callbacks' = callbacks /\ events' = events]_vars

\* a second declaration of a kind, with another arity, was refused while a
\* callback is registered for the kind
DeclaredOnceWitness ==
    /\ op.name = "register" /\ op.raised
    /\ events[op.args[1]] # op.args[2]
    /\ Len(callbacks[op.args[1]]) > 0

\* C12: every callback the registry holds for a declared kind takes as many
\* arguments as the kind's declared arity or takes a variable-length tail.
RegisteredArityMatches ==
    \A k \in DOMAIN events : \A i \in DOMAIN callbacks[k] :
        callbacks[k][i].arglen = events[k] \/ callbacks[k][i].varargs

\* C1: when load is given the identifier of a loaded unit and the attempt
\* fails at any stage, the previous unit is still loaded afterwards, with
\* the same instance, and every callback it had registered is still
\* registered.
ReloadFailureKeepsPreviousUnit ==
    [][op'.name = "load" =>
        \A p \in PluginIds :
            (Loaded(State, p) /\ Occurs(op'.args, p) = 1 /\ p \in Range(op'.failed))
            => /\ Loaded(State', p)
               /\ PluginOf(State', p).instance.id = PluginOf(State, p).instance.id
               /\ \A k \in Kinds : \A id \in HeldIds(State, p, k) :
                     Registered(callbacks, k, id) => Registered(callbacks', k, id)]_vars

\* C2: after a successful reload of a unit none of the callback ids the
\* previous unit held is registered any more, and every registry entry of
\* that identifier belongs to the freshly set-up instance.
ReloadReplacesCallbacks ==
    [][(op'.name = "load" /\ ~op'.raised) =>
        \A p \in PluginIds :
            (Loaded(State, p) /\ Occurs(op'.args, p) = 1 /\ p \notin Range(op'.failed))
            => /\ Loaded(State', p)
               /\ \A k \in Kinds : \A id \in HeldIds(State, p, k) : ~Registered(callbacks', k, id)
               /\ \A k \in Kinds : \A i \in DOMAIN callbacks'[k] :
                     callbacks'[k][i].unit = p
                     => callbacks'[k][i].inst = PluginOf(State', p).instance.id
               /\ \A k \in Kinds : \A id \in HeldIds(State', p, k) :
                     Registered(callbacks', k, id)]_vars

\* C3: unload of a loaded unit removes its record and deregisters every
\* callback id the record held, whether or not the close hook failed.
UnloadDeregistersCallbacks ==
    [][op'.name = "unload" =>
        \A p \in Range(op'.args) :
            Loaded(State, p)
            => /\ ~Loaded(State', p)
               /\ \A k \in Kinds : \A id \in HeldIds(State, p, k) : ~Registered(callbacks', k, id)]_vars

\* C4: load never lets an exception out; an identifier whose callback
\* registration failed is in the failed list and is not installed with the
\* instance that failed; no unit is installed with the callback ids of
\* another identifier.
LoadContainsFailures ==
    [][op'.name = "load" =>
        /\ ~op'.raised
        /\ \A p \in Range(op'.failed) :
              Occurs(op'.args, p) = 1
              => ~(Loaded(State', p) /\ PluginOf(State', p).instance.id > nextInst)
        /\ \A i, j \in DOMAIN plugins' :
              i # j => plugins'[i].callback_ids # plugins'[j].callback_ids]_vars

\* C5: an exception raised by a handler never ends a fire or fire_command
\* pass in an error: the pass goes on from the top of its loop, so the
\* handlers that come later are still invoked.
RaisingHandlerDoesNotEndPass ==
    [][\A slot \in DOMAIN tasks :
          (op'.name = "complete" /\ op'.args = <<slot>> /\ op'.failed[1] \in Raises)
          => /\ tasks'[slot].phase # "failed"
             /\ \E strict \in BOOLEAN :
                   tasks'[slot] = IF tasks[slot].phase = "cmd"
                                  THEN RouteLoop(State, tasks[slot], strict)
                                  ELSE FireLoop(State, tasks[slot], strict)]_vars

\* C6: when a callback invoked by fire returns STOP or STOP_ALL the fire
\* ends there, with that sentinel as its result and no further callback
\* invoked; and a fire ends with a sentinel as its result only in the step
\* in which a callback it invoked returned that sentinel.
StopEndsFire ==
    [][\A slot \in DOMAIN tasks :
          /\ (op'.name = "complete" /\ op'.args = <<slot>> /\ tasks[slot].phase = "evt"
                /\ op'.failed[1] \in Sentinels)
             => /\ tasks'[slot].phase = "done"
                /\ tasks'[slot].result = op'.failed[1]
                /\ tasks'[slot].log = tasks[slot].log
          /\ (tasks'[slot].phase = "done" /\ tasks'[slot].origin = "fire"
                /\ tasks'[slot].result \in Sentinels /\ tasks'[slot] # tasks[slot])
             => /\ op'.name = "complete" /\ op'.args = <<slot>>
                /\ tasks[slot].phase = "evt"
                /\ op'.failed[1] = tasks'[slot].result]_vars

\* three callbacks are registered, the second one returned STOP_ALL and
\* the fire ended with two callbacks invoked
StopEndsFireWitness ==
    \E slot \in DOMAIN tasks :
        /\ tasks[slot].phase = "done" /\ tasks[slot].origin = "fire"
        /\ Len(callbacks[tasks[slot].kind]) = 3
        /\ Len(tasks[slot].log) = 2
        /\ tasks[slot].result = STOP_ALL
        /\ op = Op("complete", <<slot>>, <<STOP_ALL>>, FALSE)

\* C7: fire invokes the callbacks of the kind in the order in which they
\* were registered: the callback it starts is registered, what it has
\* invoked is in registration order, a fire that ends without a sentinel
\* has invoked every callback registered for the kind, and it starts a
\* callback only in the step in which the previous one completed.
FireInRegistrationOrder ==
    [][\A slot \in DOMAIN tasks :
          LET t == tasks[slot]
              u == tasks'[slot]
          IN u.origin = "fire" =>
             /\ \A i, j \in DOMAIN u.log : i < j => u.log[i].id < u.log[j].id
             /\ (u.phase = "evt" /\ u.log # t.log)
                => /\ Registered(callbacks', u.kind, u.cur.id)
                   /\ u.log = Append(IF t.phase = "evt" THEN t.log ELSE << >>, u.cur)
                   /\ \/ op'.name = "fire" /\ op'.args = <<slot>> /\ ~Running(t)
                      \/ op'.name = "complete" /\ op'.args = <<slot>> /\ t.phase = "evt"
             /\ (u.phase = "done" /\ u.result \notin Sentinels)
                => \A i \in DOMAIN callbacks'[u.kind] :
                      callbacks'[u.kind][i].id \in Range(LogIds(u))]_vars

\* the first and the third callback registered are left after the second
\* was unregistered, and a fire has invoked them in that order
FireInRegistrationOrderWitness ==
    \E slot \in DOMAIN tasks :
        /\ tasks[slot].phase = "done" /\ tasks[slot].origin = "fire"
        /\ tasks[slot].result \notin Sentinels
        /\ LogIds(tasks[slot]) = <<1, 3>>
        /\ nextId = 3
        /\ \A k \in Kinds : Len(callbacks[k]) = IF k = tasks[slot].kind THEN 2 ELSE 0

\* C8: fire_command offers the handlers unit by unit in ascending order of
\* unit identifier, whatever the order in which the units were loaded.
RoutingFollowsIdentifierOrder ==
    \A slot \in DOMAIN tasks :
        tasks[slot].phase = "cmd"
        => \A i, j \in DOMAIN tasks[slot].log :
              i < j => ~IdLess(tasks[slot].log[j].unit, tasks[slot].log[i].unit)

\* C9: while the blacklist of a unit contains the channel of a message,
\* fire_command invokes none of that unit's handlers for the message.
BlacklistSuppressesHandlers ==
    \A slot \in DOMAIN tasks :
        tasks[slot].phase = "cmd"
        => \A i \in DOMAIN plugins :
              plugins[i].name = tasks[slot].cur.unit
              => \A j \in DOMAIN plugins[i].blacklist :
                    plugins[i].blacklist[j] \notin {ChannelStr(tasks[slot].chanName),
                                                    tasks[slot].chan}

\* C10: the session fires PRIVMSG for a message exactly once when no
\* handler returned STOP_ALL, and not at all when one did.
MessageFiresOnceUnlessStopAll ==
    \A slot \in DOMAIN tasks :
        LET t == tasks[slot]
        IN /\ (t.origin = "privmsg" /\ t.phase \in {"done", "failed"})
              => t.fired = IF t.routed = STOP_ALL THEN 0 ELSE 1
           /\ (t.origin = "privmsg" /\ t.phase = "evt")
              => t.fired = 1 /\ t.routed # STOP_ALL
\* the lists of every tracked channel, as sets
ListedIn(cs, c, f) == Range(cs[c][f])

\* C13: renaming a tracked user from A to B leaves one record for the user,
\* under lowercase B and carrying nick B, none under lowercase A unless the
\* two are equal, no other record touched, and in every tracked channel
\* lowercase B takes the place of lowercase A in the membership and in each
\* privilege list that held it.
RenameRekeysEverywhere ==
    [][(op'.name = "userRenamed" /\ Lower(op'.args[1]) \in DOMAIN users)
       => LET a == Lower(op'.args[1])
              b == Lower(op'.args[2])
          IN /\ ~op'.raised
             /\ DOMAIN users' = (DOMAIN users \ {a}) \cup {b}
             /\ users'[b] = [users[a] EXCEPT !.nick = op'.args[2]]
             /\ \A c \in ChannelNames, f \in ChannelLists :
                   channels[c] # 0
                   => ListedIn(chanState', c, f)
                      = IF a \in ListedIn(chanState, c, f)
                        THEN (ListedIn(chanState, c, f) \ {a}) \cup {b}
                        ELSE ListedIn(chanState, c, f)]_vars

\* C14: after a tracked user quits, the lowercase nick is in neither the
\* registry nor the membership nor any privilege list of a tracked channel,
\* and the quit takes nobody out of the registry who is still listed as a
\* member of a tracked channel.
QuitRemovesEverywhere ==
    [][(op'.name = "userQuit" /\ Lower(op'.args[1]) \in DOMAIN users)
       => /\ Lower(op'.args[1]) \notin DOMAIN users'
          /\ \A c \in ChannelNames, f \in ChannelLists :
                channels'[c] # 0 => Lower(op'.args[1]) \notin ListedIn(chanState', c, f)
          /\ \A k \in DOMAIN users \ DOMAIN users' : \A c \in ChannelNames :
                channels'[c] # 0 => k \notin ListedIn(chanState', c, "users")]_vars

\* C15: a part or a kick of a tracked user from a tracked channel takes the
\* lowercase nick out of that channel's membership and out of each of its
\* privilege lists and leaves every other channel as it was; the user leaves
\* the registry exactly when no other tracked channel lists the nick as a
\* member, and no other record changes. The call fails, and changes nothing,
\* exactly when the user or the channel is not tracked.
PartRemovesMember ==
    [][op'.name \in {"userLeft", "userKicked"}
       => LET n == Lower(op'.args[1])
              c == op'.args[2]
          IN /\ op'.raised <=> (n \notin DOMAIN users \/ channels[c] = 0)
             /\ op'.raised => users' = users /\ chanState' = chanState
             /\ ~op'.raised
                => /\ \A f \in ChannelLists :
                         ListedIn(chanState', c, f) = ListedIn(chanState, c, f) \ {n}
                   /\ \A c2 \in ChannelNames \ {c} : chanState'[c2] = chanState[c2]
                   /\ n \in DOMAIN users'
                      <=> \E c2 \in ChannelNames \ {c} :
                             channels[c2] # 0 /\ n \in ListedIn(chanState, c2, "users")
                   /\ DOMAIN users \ {n} \subseteq DOMAIN users'
                   /\ \A k \in DOMAIN users' : users'[k] = users[k]]_vars
\* a user parted a channel where somebody else stays operator, and is kept
\* because the other channel lists the user
PartRemovesMemberWitness ==
    /\ op.name = "userLeft" /\ ~op.raised /\ op.args = <<"al", "#c">>
    /\ "al" \in DOMAIN users /\ users["al"].nick = "Al"
    /\ "al" \in ListedIn(chanState, "#d", "users") /\ "al" \in ListedIn(chanState, "#d", "aops")
    /\ chanState["#c"].users = <<"bo">> /\ chanState["#c"].aops = <<"bo">>

\* C16: every key of the registry is the lowercase form of the nick its
\* record carries, so no two records share a lowercase nick; addUser of a
\* nick whose lowercase form is tracked returns the record that is there and
\* leaves the registry as it was, and addUser of any other nick adds one
\* record under the lowercase nick and returns it.
OneUserPerLowercaseNick ==
    [][/\ \A k \in DOMAIN users' : Lower(users'[k].nick) = k
       /\ \A k1 \in DOMAIN users', k2 \in DOMAIN users' :
             Lower(users'[k1].nick) = Lower(users'[k2].nick) => k1 = k2
       /\ op'.name = "addUser"
          => LET n == op'.args[1]
             IN /\ ~op'.raised
                /\ Lower(n) \in DOMAIN users
                   => users' = users /\ op'.failed = <<users[Lower(n)].nick>>
                /\ Lower(n) \notin DOMAIN users
                   => /\ DOMAIN users' = DOMAIN users \cup {Lower(n)}
                      /\ users'[Lower(n)] = NewUser(n)
                      /\ \A k \in DOMAIN users : users'[k] = users[k]
                      /\ op'.failed = <<n>>]_vars
\* addUser('al') while 'Al' is tracked returned the record of 'Al'
OneUserPerLowercaseNickWitness ==
    /\ op.name = "addUser" /\ op.args = <<"al">> /\ op.failed = <<"Al">>
    /\ DOMAIN users = {"al", "bo"} /\ users["al"].nick = "Al"

\* the entry the change names is there: the flag in the mode string of the
\* user or the channel, the nick in the privilege list, the mask in the bans
Present(d, target, change) ==
    IF target \notin ChannelNames
    THEN Lower(target) \in DOMAIN d.users /\ change[1] \in Range(d.users[Lower(target)].modes)
    ELSE /\ Tracked(d, target)
         /\ IF change[2] = None THEN change[1] \in Range(d.chanState[target].modes)
            ELSE IF change[1] \in OpLetters
                 THEN Lower(change[2]) \in Range(d.chanState[target][OpList(change[1])])
                 ELSE change[1] = "b" /\ Lower(change[2]) \in Range(d.chanState[target].bans)

\* C17: a mode change applied again to the state it produced changes
\* nothing, for a user and for a channel; adding a flag, privilege or ban
\* that is there, or removing one that is not, leaves the user's modes and
\* the channel's modes, privilege lists and bans as they were.
ApplyModeIdempotent ==
    [][op'.name = "modeChanged"
       => LET target == op'.args[1]
              added == op'.args[2]
              changes == op'.args[3]
          IN /\ ModeChangedIn(Domain', target, added, changes) = Domain'
             /\ op'.failed = <<Domain' # Domain>>
             /\ (\A i \in DOMAIN changes : added <=> Present(Domain, target, changes[i]))
                => users' = users /\ chanState' = chanState]_vars
\* +ob Al Al on a channel where Al is operator and banned changed nothing
ApplyModeIdempotentWitness ==
    /\ op.name = "modeChanged" /\ op.failed = <<FALSE>>
    /\ op.args = <<"#c", TRUE, <<<<"o", "Al">>, <<"b", "Al">>>>>>
    /\ chanState["#c"].aops = <<"al">> /\ chanState["#c"].bans = <<"al">>

\* C19: a channel-mode reply whose mode string does not parse is logged,
\* raises nothing and changes no user, no channel, no mode, privilege or ban:
\* the changes that precede the malformed part are not applied.
BadModesChangeNothing ==
    [][(op'.name = "irc_RPL_CHANNELMODEIS" /\ op'.args[2].bad)
       => /\ users' = users /\ chanState' = chanState /\ channels' = channels
          /\ ~op'.raised /\ op'.failed = <<TRUE>>]_vars
\* a line that starts with +o Al and then fails to parse reached a tracked
\* channel without operators
BadModesChangeNothingWitness ==
    /\ op.name = "irc_RPL_CHANNELMODEIS" /\ op.args[1] = "#c" /\ op.args[2].bad
    /\ Len(op.args[2].changes) = MaxModes /\ op.args[2].changes[1] = <<"o", "Al">>
    /\ channels["#c"] # 0 /\ chanState["#c"].aops = << >>
    /\ chanState["#c"].modes # << >>

\* the privilege list a prefix stands for: owner, admin, operator,
\* half-operator, voice
PrefixList(p) == CASE p = "~" -> "qops" [] p = "&" -> "sops" [] p = "@" -> "aops"
                   [] p = "%" -> "hops" [] p = "+" -> "vops"
\* the lowercase nicks a reply lists with one of the prefixes
ListedWith(names, prefixes) == {Lower(names[i].nick) : i \in {j \in DOMAIN names : names[j].prefix \in prefixes}}

BlacklistIsASet ==
    [][op'.name \in {"blacklist", "unblacklist"}
       => LET p == op'.args[1]
              named == {op'.args[i] : i \in 2..Len(op'.args)}
          IN IF ~Loaded(State, p) THEN plugins' = plugins
             ELSE LET before == Range(PluginOf(State, p).blacklist)
                      after == Range(PluginOf(State', p).blacklist)
                  IN after = IF op'.name = "blacklist" THEN before \cup named
                             ELSE before \ named]_vars

\* the coroutines whose handler was started and has not ended
InFlight == {t \in DOMAIN tasks : Running(tasks[t]) /\ tasks[t].cur # NoHandler}

\* C21: at most one plugin handler is in flight at any time: while a command,
\* regex or event handler is suspended no other handler is started, neither
\* by the same pass nor by the handling of a later message.
OneHandlerInFlight == Cardinality(InFlight) <= 1

\* the nick is listed as a member of a tracked channel
Member(k) == \E c \in ChannelNames : channels[c] # 0 /\ k \in ListedIn(chanState, c, "users")

\* C22: once a line has been handled, every user of the registry is a member
\* of a tracked channel: a part or kick of the client itself purges those
\* who were members of that channel only, and an identity reply for a nick
\* that is in no tracked channel leaves no record.
RegisteredUsersAreMembers == \A k \in DOMAIN users : Member(k)

\* C26: once a line has been handled, every nick that a tracked channel lists
\* as a member is a key of the user registry, so the lookup of the user that a
\* later part or kick of a member starts with finds a record.
MembersAreRegistered ==
    \A c \in ChannelNames :
        channels[c] # 0 => \A k \in ListedIn(chanState, c, "users") : k \in DOMAIN users

\* C28: the close hook of a plugin instance is called at most once over the
\* life of the instance, whatever loads, reloads and unloads are made; one
\* successful reload calls the hook of the instance it replaces once.
CloseCalledAtMostOnce == \A i \in DOMAIN closes : closes[i] <= 1

\* the loaded units whose record holds callback id `id` for kind k
Holders(k, id) == {i \in DOMAIN plugins : id \in Range(cidHeap[plugins[i].callback_ids][k])}

\* C25: after any loads, reloads and unloads, failed or not, the registry has
\* no orphan callback: every callback id registered for a kind is held by
\* exactly one loaded unit, and every id a loaded unit holds is registered for
\* that kind.
NoOrphanCallbacks ==
    \A k \in Kinds :
        /\ \A i \in DOMAIN callbacks[k] : Cardinality(Holders(k, callbacks[k][i].id)) = 1
        /\ \A i \in DOMAIN plugins :
              \A id \in Range(cidHeap[plugins[i].callback_ids][k]) : Registered(callbacks, k, id)

\* C27: a fire that is suspended inside a callback is not aborted by a
\* callback of its kind being registered or unregistered meanwhile: it ends
\* with a result, never with the error of an iterator whose dictionary changed.
FireSurvivesRegistryChange ==
    \A t \in DOMAIN tasks : ~(tasks[t].phase = "failed" /\ tasks[t].error = "RuntimeError")

\* the places of the WHOIS queries among the lines an operation sent
WhoisSent(lines) == {i \in DOMAIN lines : lines[i][1] = "WHOIS"}
\* the operations that call addUser
AddsUsers == {"addUser", "userJoined", "irc_RPL_NAMREPLY"}

Queries == {<<"MODE", c>> : c \in ChannelNames} \cup {<<"MODE", c, "b">> : c \in ChannelNames}

\* C23: a join schedules the mode query and the ban-list query of the channel,
\* these two and no more, and sends nothing in the same step; what is
\* scheduled leaves the schedule only by being sent, whether the channel was
\* left or the connection lost meanwhile; and every query that is scheduled
\* is sent in the end.
ScheduledQueriesAreSent ==
    /\ [][/\ op'.name = "joined"
               => /\ timers' = timers \o << <<"MODE", op'.args[1]>>, <<"MODE", op'.args[1], "b">> >>
                  /\ sent' = << >>
          /\ op'.name \in {"left", "connectionLost"} => timers' = timers /\ sent' = << >>
          /\ timers' # timers /\ op'.name # "joined"
               => /\ op'.name = "sendLine"
                  /\ timers # << >>
                  /\ timers' = Tail(timers)
                  /\ sent' = <<Head(timers)>>]_vars
    /\ \A q \in Queries :
          (\E i \in DOMAIN timers : timers[i] = q) ~> (op.name = "sendLine" /\ sent = <<q>>)

\* the ban-list query of a channel goes out after the channel was left and
\* the connection was lost
ScheduledQueriesAreSentWitness ==
    /\ op.name = "sendLine" /\ sent = << <<"MODE", "#c", "b">> >>
    /\ channels["#c"] = 0 /\ ~connected

====
